---- MODULE Spec2Model ----
(***************************************************************************)
(* Bundle deploy run of uds-cli: the bubbletea run-loop (Model.Update in   *)
(* src/pkg/bundle/tui/tui.go), the background deploy worker it starts, and *)
(* the deploy command that owns the run (deployCmd / deployWithoutTea).    *)
(***************************************************************************)
EXTENDS Integers, Sequences, FiniteSets, Bags, TLC

\* ---------------------------------------------------------------- bounds
MaxPkgs == 2
MaxComp == 2
MaxKeys == 1
MaxBatches == 2
MaxLayers == 2
MaxSize == 2
MaxFetches == 2

\* ------------------------------------------------------------- vocabulary
PkgNameOf == <<"a", "b", "c", "d">>

Keys == {"y", "Y", "n", "N", "ctrl+c", "q", "x"}

NoRecord == -1

\* A command token of a goroutine started by the bubbletea runtime.
Tok(c, a) == [c |-> c, a |-> a]

\* A message handed to Update.
Msg(t, a, isInt, n) == [t |-> t, a |-> a, isInt |-> isInt, n |-> n]

TickMsg == Msg("tick", "", FALSE, 0)
FrameMsg == Msg("frame", "", FALSE, 0)
SpinMsg == Msg("spin", "", FALSE, 0)
OpMsg == Msg("op", "deploy", FALSE, 0)
KeyMsg(k) == Msg("key", k, FALSE, 0)
\* the string "<kind>:<value>", value an integer
StrInt(kind, n) == Msg(kind, "", TRUE, n)
\* the string "<kind>:<value>", value a name
StrName(kind, s) == Msg(kind, s, FALSE, 0)

\* Go slices are indexed from 0.
InRange(s, i) == i >= 0 /\ i < Len(s)
At(s, i) == s[i + 1]
SetAt(s, i, v) == [s EXCEPT ![i + 1] = v]

\* A progress bar's target percentage, a fraction num/den.
Pct(num, den) == [num |-> num, den |-> den]

\* What a tick did to the current bar: the percentage it set, and the line of
\* the handler that set it ("complete", "record", "reset") or "nolookup" when
\* the cluster lookup itself failed.
PctSet(p, how) == <<[num |-> p.num, den |-> p.den, how |-> how]>>

\* progress.Model.SetPercent clamps its argument to [0, 1].
SetPercent(num, den) ==
    IF num <= 0 THEN Pct(0, 1)
    ELSE IF num >= den THEN Pct(1, 1)
    ELSE Pct(num, den)

\* ------------------------------------------------------------ the session
InitModel(confirm) ==
    [ confirmed |-> confirm,
      done |-> FALSE,
      pkgIdx |-> 0,
      pkgNames |-> <<>>,
      totalComponentsPerPkg |-> <<>>,
      totalPkgs |-> 0,
      complete |-> <<>>,
      progressBars |-> <<>>,
      spinners |-> <<>> ]

\* Model.Init: print the pre-deploy view, then send DeployOp.
ModelInit == <<Tok("println", "prompt"), Tok("op", "")>>

\* What one call of Update returns: the model, the package-level reset flag,
\* the goroutines the returned command starts, whether the call panicked,
\* whether it received from fatalChan, and the percentage it set (if any).
Ret(m, reset, spawn) ==
    [ m |-> m, reset |-> reset, spawn |-> spawn, panic |-> FALSE,
      fatal |-> FALSE, pct |-> <<>>, batch |-> FALSE ]

Panic(m, reset) == [Ret(m, reset, {}) EXCEPT !.panic = TRUE]

\* tea.Sequence skips nil commands; a sequence of nothing starts no goroutine.
Sequence(toks) == IF toks = <<>> THEN {} ELSE {toks}


\* ------------------------------------------------- deployed-state lookup
DecodePanic == -2

\* GetDeployedPackage: nil (NoRecord) when the secret cannot be read, the
\* decoded record's component count otherwise; an undecodable secret panics.
\* lk is the outcome of the cluster lookup: "ok", "err" or "bad".
GetDeployedPackage(rec, name, lk) ==
    IF lk = "err" \/ rec[name] = NoRecord THEN NoRecord
    ELSE IF lk = "bad" THEN DecodePanic
    ELSE rec[name]

\* --------------------------------------------------------------- Update
\* case <-m.fatalChan
UpdateFatal(m, reset) ==
    IF ~InRange(m.spinners, m.pkgIdx)
    THEN [Panic(m, reset) EXCEPT !.fatal = TRUE]
    ELSE [Ret([m EXCEPT !.spinners = SetAt(@, m.pkgIdx, "fail")], reset,
              Sequence(<<Tok("spin", ""), Tok("pause", ""), Tok("quit", "")>>))
            EXCEPT !.fatal = TRUE]

\* case progress.FrameMsg (the bar's animation is taken to settle at once)
UpdateFrame(m, reset) ==
    IF ~InRange(m.progressBars, m.pkgIdx) THEN Panic(m, reset)
    ELSE Ret(m, reset, {})

\* The success batch of the last package: the separator line, one
\* "Package <name> deployed" line per package, then Quit.
SuccessCmds(m) ==
    <<Tok("frame", ""), Tok("spin", ""), Tok("tick", ""), Tok("println", "line")>>
    \o [i \in 1..m.totalPkgs |-> Tok("println", m.pkgNames[i])]
    \o <<Tok("quit", "")>>

\* case tickMsg, the current package is complete
TickComplete(m, reset) ==
    IF ~InRange(m.progressBars, m.pkgIdx) \/ ~InRange(m.spinners, m.pkgIdx)
    THEN Panic(m, reset)
    ELSE LET m1 == [m EXCEPT !.progressBars = SetAt(@, m.pkgIdx, SetPercent(100, 1)),
                             !.spinners = SetAt(@, m.pkgIdx, "ok")]
         IN  IF m.pkgIdx = m.totalPkgs - 1
             THEN IF m.totalPkgs > Len(m.pkgNames) THEN Panic(m, reset)
                  ELSE [Ret([m1 EXCEPT !.done = TRUE], reset, Sequence(SuccessCmds(m1)))
                          EXCEPT !.pct = PctSet(SetPercent(100, 1), "complete"), !.batch = TRUE]
             ELSE [Ret(m1, reset, Sequence(<<Tok("frame", ""), Tok("spin", "")>>))
                     EXCEPT !.pct = PctSet(SetPercent(100, 1), "complete")]

\* The tail of the tick handler: keep the spinner spinning, schedule a tick.
TickTail(m, reset, progressCmd, pct) ==
    IF Len(m.spinners) > 0
    THEN IF ~InRange(m.spinners, m.pkgIdx) THEN Panic(m, reset)
         ELSE [Ret(m, reset, Sequence(progressCmd \o <<Tok("spin", ""), Tok("tick", "")>>))
                 EXCEPT !.pct = pct]
    ELSE [Ret(m, reset, Sequence(progressCmd \o <<Tok("tick", "")>>)) EXCEPT !.pct = pct]

\* The progress branch with a bar that never moves backward: a record showing
\* less than the bar leaves the bar where it is.
TickProgress_NoBackward(m, reset, rec, lk) ==
    IF ~InRange(m.pkgNames, m.pkgIdx) THEN Panic(m, reset)
    ELSE
    LET dep == GetDeployedPackage(rec, At(m.pkgNames, m.pkgIdx), lk)
        total == At(m.totalComponentsPerPkg, m.pkgIdx)
    IN  IF dep = DecodePanic \/ ~InRange(m.progressBars, m.pkgIdx)
        THEN Panic(m, reset)
        ELSE LET bar == At(m.progressBars, m.pkgIdx)
                 new == IF dep /= NoRecord /\ ~reset THEN SetPercent(dep, total)
                        ELSE SetPercent(0, 1)
                 p == IF new.num * bar.den < bar.num * new.den THEN bar ELSE new
             IN  TickTail([m EXCEPT !.progressBars = SetAt(@, m.pkgIdx, p)],
                          IF dep /= NoRecord /\ dep >= 1 THEN FALSE ELSE reset,
                          <<Tok("frame", "")>>,
                          PctSet(p, IF lk = "err" THEN "nolookup" ELSE "record"))

\* case tickMsg, the current package has components and is not complete
TickProgress(m, reset, rec, lk) ==
    IF ~InRange(m.pkgNames, m.pkgIdx) THEN Panic(m, reset)
    ELSE
    LET dep == GetDeployedPackage(rec, At(m.pkgNames, m.pkgIdx), lk)
        total == At(m.totalComponentsPerPkg, m.pkgIdx)
    IN  IF dep = DecodePanic \/ ~InRange(m.progressBars, m.pkgIdx)
        THEN Panic(m, reset)
        ELSE IF dep /= NoRecord /\ ~reset
        THEN LET p == SetPercent(dep, total)
                 m1 == [m EXCEPT !.progressBars = SetAt(@, m.pkgIdx, p)]
             IN  IF p.num = p.den
                 THEN IF ~InRange(m.spinners, m.pkgIdx) THEN Panic(m, reset)
                      ELSE TickTail([m1 EXCEPT !.spinners = SetAt(@, m.pkgIdx, "ok")],
                                    reset, <<Tok("frame", "")>>, PctSet(p, "record"))
                 ELSE TickTail(m1, reset, <<Tok("frame", "")>>, PctSet(p, "record"))
        ELSE LET p == SetPercent(0, 1)
                 m1 == [m EXCEPT !.progressBars = SetAt(@, m.pkgIdx, p)]
             IN  TickTail(m1, IF dep /= NoRecord /\ dep >= 1 THEN FALSE ELSE reset,
                          <<Tok("frame", "")>>,
                          PctSet(p, IF lk = "err" THEN "nolookup" ELSE "reset"))

\* case tickMsg
UpdateTick(m, reset, rec, lk) ==
    IF InRange(m.complete, m.pkgIdx) /\ At(m.complete, m.pkgIdx)
    THEN TickComplete(m, reset)
    ELSE IF InRange(m.totalComponentsPerPkg, m.pkgIdx)
            /\ At(m.totalComponentsPerPkg, m.pkgIdx) > 0
    THEN TickProgress(m, reset, rec, lk)
    ELSE TickTail(m, reset, <<>>, <<>>)

\* case tea.KeyMsg
UpdateKey(m, reset, k) ==
    IF k \in {"y", "Y"}
    THEN Ret([m EXCEPT !.confirmed = TRUE], reset, {<<Tok("op", "")>>})
    ELSE IF k \in {"n", "N"}
    THEN Ret(m, reset, {})
    ELSE IF k \in {"ctrl+c", "q"}
    THEN Ret(m, reset, {<<Tok("quit", "")>>})
    ELSE Ret(m, reset, {})

\* The operation handler without its test of m.confirmed.
UpdateOperation_Unconfirmed(m, reset) ==
    Ret(m, reset, {<<Tok("tick", "")>>, <<Tok("deploy", "")>>})

\* case operation: tea.Batch(tickCmd(), deployCmd) once confirmed
UpdateOperation(m, reset) ==
    IF m.confirmed
    THEN Ret(m, reset, {<<Tok("tick", "")>>, <<Tok("deploy", "")>>})
    ELSE Ret(m, reset, {})

\* Variant of the string handler whose idx case moves the session to the
\* package after the one named by the event.
UpdateString_IdxAhead(m, reset, msg, rec, lk) ==
    IF msg.t = "package"
    THEN LET dep == GetDeployedPackage(rec, msg.a, lk)
         IN  IF dep = DecodePanic THEN Panic(m, reset)
             ELSE Ret([m EXCEPT !.pkgNames = Append(@, msg.a)],
                      IF dep /= NoRecord /\ dep /= 0 THEN TRUE ELSE reset, {})
    ELSE IF msg.t = "totalComponents"
    THEN IF msg.isInt
         THEN Ret([m EXCEPT !.totalComponentsPerPkg = Append(@, msg.n)], reset, {})
         ELSE Ret(m, reset, {})
    ELSE IF msg.t = "totalPackages"
    THEN IF msg.isInt THEN Ret([m EXCEPT !.totalPkgs = msg.n], reset, {})
         ELSE Ret(m, reset, {})
    ELSE IF msg.t = "idx"
    THEN IF msg.isInt
         THEN Ret([m EXCEPT !.pkgIdx = msg.n + 1,
                            !.progressBars = Append(@, Pct(0, 1)),
                            !.spinners = Append(@, "spin")], reset, {})
         ELSE Ret(m, reset, {})
    ELSE IF msg.t = "complete"
    THEN Ret([m EXCEPT !.complete = Append(@, TRUE)], reset, {})
    ELSE Ret(m, reset, {})

\* Variant of the string handler whose idx case adds a progress bar but no
\* spinner.
UpdateString_NoSpinner(m, reset, msg, rec, lk) ==
    IF msg.t = "package"
    THEN LET dep == GetDeployedPackage(rec, msg.a, lk)
         IN  IF dep = DecodePanic THEN Panic(m, reset)
             ELSE Ret([m EXCEPT !.pkgNames = Append(@, msg.a)],
                      IF dep /= NoRecord /\ dep /= 0 THEN TRUE ELSE reset, {})
    ELSE IF msg.t = "totalComponents"
    THEN IF msg.isInt
         THEN Ret([m EXCEPT !.totalComponentsPerPkg = Append(@, msg.n)], reset, {})
         ELSE Ret(m, reset, {})
    ELSE IF msg.t = "totalPackages"
    THEN IF msg.isInt THEN Ret([m EXCEPT !.totalPkgs = msg.n], reset, {})
         ELSE Ret(m, reset, {})
    ELSE IF msg.t = "idx"
    THEN IF msg.isInt
         THEN Ret([m EXCEPT !.pkgIdx = msg.n,
                            !.progressBars = Append(@, Pct(0, 1))], reset, {})
         ELSE Ret(m, reset, {})
    ELSE IF msg.t = "complete"
    THEN Ret([m EXCEPT !.complete = Append(@, TRUE)], reset, {})
    ELSE Ret(m, reset, {})

\* Variant of the string handler that ignores Atoi's error: a value that is
\* not an integer is stored as 0.
UpdateString_AtoiUnchecked(m, reset, msg, rec, lk) ==
    IF msg.t = "package"
    THEN LET dep == GetDeployedPackage(rec, msg.a, lk)
         IN  IF dep = DecodePanic THEN Panic(m, reset)
             ELSE Ret([m EXCEPT !.pkgNames = Append(@, msg.a)],
                      IF dep /= NoRecord /\ dep /= 0 THEN TRUE ELSE reset, {})
    ELSE IF msg.t = "totalComponents"
    THEN Ret([m EXCEPT !.totalComponentsPerPkg =
                 Append(@, IF msg.isInt THEN msg.n ELSE 0)], reset, {})
    ELSE IF msg.t = "totalPackages"
    THEN Ret([m EXCEPT !.totalPkgs = IF msg.isInt THEN msg.n ELSE 0], reset, {})
    ELSE IF msg.t = "idx"
    THEN Ret([m EXCEPT !.pkgIdx = IF msg.isInt THEN msg.n ELSE 0,
                       !.progressBars = Append(@, Pct(0, 1)),
                       !.spinners = Append(@, "spin")], reset, {})
    ELSE IF msg.t = "complete"
    THEN Ret([m EXCEPT !.complete = Append(@, TRUE)], reset, {})
    ELSE Ret(m, reset, {})

\* case string: the progress events "<kind>:<value>"
UpdateString(m, reset, msg, rec, lk) ==
    IF msg.t = "package"
    THEN LET dep == GetDeployedPackage(rec, msg.a, lk)
         IN  IF dep = DecodePanic THEN Panic(m, reset)
             ELSE Ret([m EXCEPT !.pkgNames = Append(@, msg.a)],
                      IF dep /= NoRecord /\ dep /= 0 THEN TRUE ELSE reset, {})
    ELSE IF msg.t = "totalComponents"
    THEN IF msg.isInt
         THEN Ret([m EXCEPT !.totalComponentsPerPkg = Append(@, msg.n)], reset, {})
         ELSE Ret(m, reset, {})
    ELSE IF msg.t = "totalPackages"
    THEN IF msg.isInt THEN Ret([m EXCEPT !.totalPkgs = msg.n], reset, {})
         ELSE Ret(m, reset, {})
    ELSE IF msg.t = "idx"
    THEN IF msg.isInt
         THEN Ret([m EXCEPT !.pkgIdx = msg.n,
                            !.progressBars = Append(@, Pct(0, 1)),
                            !.spinners = Append(@, "spin")], reset, {})
         ELSE Ret(m, reset, {})
    ELSE IF msg.t = "complete"
    THEN Ret([m EXCEPT !.complete = Append(@, TRUE)], reset, {})
    ELSE Ret(m, reset, {})

StringKinds ==
    {"package", "totalComponents", "totalPackages", "idx", "complete",
     "verifying", "downloading"}

\* Update without the select on fatalChan: the message is always dispatched.
Update_NoSelect(m, reset, msg, fatalPending, rec, lk) ==
    IF msg.t = "frame" THEN UpdateFrame(m, reset)
    ELSE IF msg.t = "tick" THEN UpdateTick(m, reset, rec, lk)
    ELSE IF msg.t = "key" THEN UpdateKey(m, reset, msg.a)
    ELSE IF msg.t = "op" THEN UpdateOperation(m, reset)
    ELSE IF msg.t \in StringKinds THEN UpdateString(m, reset, msg, rec, lk)
    ELSE Ret(m, reset, {})

\* Update: a pending send on fatalChan wins over the message (select/default).
Update(m, reset, msg, fatalPending, rec, lk) ==
    IF fatalPending THEN UpdateFatal(m, reset)
    ELSE IF msg.t = "frame" THEN UpdateFrame(m, reset)
    ELSE IF msg.t = "tick" THEN UpdateTick(m, reset, rec, lk)
    ELSE IF msg.t = "key" THEN UpdateKey(m, reset, msg.a)
    ELSE IF msg.t = "op" THEN UpdateOperation(m, reset)
    ELSE IF msg.t \in StringKinds THEN UpdateString(m, reset, msg, rec, lk)
    ELSE Ret(m, reset, {})


\* ---------------------------------------------------------------- state
VARIABLES
    cfg,            \* noTea, confirm (config.CommonOptions), npkgs, comps (the bundle)
    rec,            \* the cluster's deployed-package records: name -> count
    mainPc,         \* where the deploy command's Run function is
    prog,           \* the tea.Program: "running", "quit", "panicked", "killed"
    m,              \* the Model held by the run-loop
    resetProgress,  \* the package-level resetProgress flag
    procs,          \* goroutines of commands returned by Init/Update (a bag)
    workers,        \* one record per invocation of bndlClient.Deploy
    keysLeft,       \* key events the user may still send
    hist,           \* observations of the run, read by the properties only
    manifest,       \* pkgManifest.Layers of the package being fetched, and
                    \* config.CommonOptions.OCIConcurrency
    rb,             \* the RemoteBundle: isPartial, and the package it is for
    dl,             \* the running LoadPackage / downloadPkgFromRemoteBundle call
    copies,         \* oras.Copy: the state of each descriptor of layersToPull
    sent,           \* the progress events passed to deploy.Program.Send
    fobs            \* observations of the fetches, read by the properties only

\* the deploy run
tvars == <<cfg, rec, mainPc, prog, m, resetProgress, procs, workers, keysLeft, hist>>
\* the package fetch
fvars == <<manifest, rb, dl, copies, sent, fobs>>

vars == <<tvars, fvars>>

PkgIdxs == 0..(MaxPkgs - 1)
PkgNames == {PkgNameOf[i] : i \in 1..MaxPkgs}

InitHist ==
    [ deploys |-> 0,           \* invocations of bndlClient.Deploy
      deployErr |-> FALSE,     \* a Deploy returned an error
      clearCalls |-> 0,        \* calls of ClearPaths
      yKey |-> FALSE,          \* a 'y'/'Y' key event was handled
      nKey |-> FALSE,          \* an 'n'/'N' key event was handled before confirmation
      declined |-> FALSE,      \* ConfirmBundleDeploy returned false
      batches |-> 0,           \* success batches issued by Update
      printed |-> <<>>,        \* lines printed by tea.Println commands
      fatals |-> 0,            \* receives from fatalChan
      fatalQuit |-> FALSE,     \* the fatal branch issued Quit
      userQuit |-> FALSE,      \* ctrl+c / q issued Quit
      atQuit |-> <<>>,         \* the session fields when the first ctrl+c / q key
                               \* event reached Update before done was set
      progErr |-> FALSE,       \* Program.Run returned an error
      deployed |-> {},         \* packages whose deploy operation returned success
      lookupPanic |-> FALSE,   \* a GetDeployedPackage call panicked
      lastPct |-> <<>>,        \* the latest percentage a tick set, the record and
                               \* the components applied then, and whether the
                               \* record had fallen below the bar
      firstPct |-> [i \in PkgIdxs |-> <<>>],   \* first percentage set per package,
                                               \* with the record at that tick
      recAtStart |-> [i \in PkgNames |-> NoRecord] ] \* record seen at "package:<name>"

\* The bundle and the cluster records of a run of n packages: packages beyond
\* the bundle have no components and no record.
Bundles(n, C) == {c \in [PkgIdxs -> C \cup {0}] : \A i \in PkgIdxs : i >= n => c[i] = 0}
Records(n, R) ==
    {r \in [PkgNames -> R \cup {NoRecord}] :
        \A i \in PkgIdxs : i >= n => r[PkgNameOf[i + 1]] = NoRecord}

\* Runs in which the user sends key events: one package without components.
KeyRuns ==
    /\ cfg \in [ noTea : {FALSE}, confirm : BOOLEAN, npkgs : {1}, comps : Bundles(1, {0}) ]
    /\ rec \in Records(1, {NoRecord})
    /\ keysLeft = MaxKeys

\* Runs of one package, over every component count and prior record.
ResumeRuns ==
    /\ cfg \in [ noTea : BOOLEAN, confirm : {TRUE}, npkgs : {1},
                 comps : Bundles(1, 0..MaxComp) ]
    /\ rec \in Records(1, NoRecord..MaxComp)
    /\ keysLeft = 0

\* Runs of several packages of one component, each fresh or deployed before.
BundleRuns ==
    /\ cfg \in [ noTea : BOOLEAN, confirm : {TRUE}, npkgs : 2..MaxPkgs,
                 comps : [PkgIdxs -> {0, 1}] ]
    /\ cfg.comps \in Bundles(cfg.npkgs, {1})
    /\ \A i \in PkgIdxs : i < cfg.npkgs => cfg.comps[i] = 1
    /\ rec \in Records(cfg.npkgs, {NoRecord, 1})
    /\ keysLeft = 0

\* A RemoteBundle as sources.New leaves it, for package p.
NewRemoteBundle(p) == [isPartial |-> FALSE, pkg |-> p]

\* No LoadPackage call is running.
Idle == [pc |-> "idle"]

InitFobs ==
    [ fetches |-> 0,           \* LoadPackage calls started
      partialAtStart |-> FALSE, \* r.isPartial when the current call started
      sentAtStart |-> 0,       \* events sent before the current call started
      exists |-> <<>>,         \* result of each Exists call of the current fetch
      used |-> <<>>,           \* layers passed to cache.Use, in call order
      copyRuns |-> 0,          \* oras.Copy calls of the current fetch
      copied |-> {},           \* descriptors whose copy completed
      result |-> <<>>,         \* what the last finished call returned
      strict |-> <<>>,         \* strictness of the last integrity validation
      load |-> <<>> ]          \* what LoadPackage returned after a download, and
                               \* whether the filter and the validation pass

\* The deploy run without a fetch in view.
NoFetch ==
    /\ manifest = [layers |-> <<>>, concurrency |-> 1, components |-> 0]
    /\ rb = NewRemoteBundle(0)
    /\ dl = Idle
    /\ copies = <<>>
    /\ sent = <<>>
    /\ fobs = InitFobs

Init ==
    /\ (KeyRuns \/ ResumeRuns \/ BundleRuns)
    /\ mainPc = IF cfg.noTea THEN "validate" ELSE "tui"
    /\ prog = IF cfg.noTea THEN "none" ELSE "running"
    /\ m = InitModel(cfg.confirm)
    /\ resetProgress = FALSE
    /\ procs = IF cfg.noTea THEN EmptyBag ELSE SetToBag({ModelInit})
    /\ workers = <<>>
    /\ hist = InitHist
    /\ NoFetch

Exited == mainPc \in {"exit0", "exit1"}

\* ------------------------------------------------------ the deploy worker
\* Deploy's progress events for one package, in order; "apply" stands for the
\* deploy of one component, which rewrites the package's deployed record.
NewWorker == [pc |-> "run", step |-> "totalPackages", pkg |-> 0, applied |-> 0]

AfterTotalComponents(w) ==
    IF cfg.comps[w.pkg] = 0 THEN [w EXCEPT !.step = "complete"]
    ELSE [w EXCEPT !.step = "apply", !.applied = 0]

AfterSend(w) ==
    IF w.step = "totalPackages" THEN [w EXCEPT !.step = "package", !.pkg = 0]
    ELSE IF w.step = "package" THEN [w EXCEPT !.step = "idx"]
    ELSE IF w.step = "idx" THEN [w EXCEPT !.step = "verifying"]
    ELSE IF w.step = "verifying" THEN [w EXCEPT !.step = "totalComponents"]
    ELSE IF w.step = "totalComponents" THEN AfterTotalComponents(w)
    ELSE IF w.pkg + 1 < cfg.npkgs
         THEN [w EXCEPT !.step = "package", !.pkg = @ + 1, !.applied = 0]
         ELSE [w EXCEPT !.step = "end"]

EventOf(w) ==
    IF w.step = "totalPackages" THEN StrInt("totalPackages", cfg.npkgs)
    ELSE IF w.step = "package" THEN StrName("package", PkgNameOf[w.pkg + 1])
    ELSE IF w.step = "idx" THEN StrInt("idx", w.pkg)
    ELSE IF w.step = "verifying" THEN StrInt("verifying", 100)
    ELSE IF w.step = "totalComponents" THEN StrInt("totalComponents", cfg.comps[w.pkg])
    ELSE StrName("complete", PkgNameOf[w.pkg + 1])

SendSteps == {"totalPackages", "package", "idx", "verifying", "totalComponents", "complete"}

\* A worker blocked in  m.fatalChan <- err
FatalPending == \E i \in 1..Len(workers) : workers[i].pc = "sendFatal"

\* The blocked sender the receive takes (any one of them).
TakeFatal(ws, i) == [ws EXCEPT ![i].pc = "returned"]


\* --------------------------------------------------------- the run-loop
Lookups == {"ok", "err", "bad"}

OtherMsg == Msg("other", "", FALSE, 0)

MsgOfTok(tok) ==
    IF tok.c = "tick" THEN TickMsg
    ELSE IF tok.c = "frame" THEN FrameMsg
    ELSE IF tok.c = "spin" THEN SpinMsg
    ELSE IF tok.c = "op" THEN OpMsg
    ELSE OtherMsg

PendingDeploys == CopiesIn(<<Tok("deploy", "")>>, procs)

\* Once the program has stopped its command goroutines can deliver nothing;
\* only a deployCmd goroutine not yet running still matters.
Stopped(b) ==
    IF CopiesIn(<<Tok("deploy", "")>>, b) > 0
    THEN [g \in {<<Tok("deploy", "")>>} |-> CopiesIn(<<Tok("deploy", "")>>, b)]
    ELSE EmptyBag

\* Components of package i this run's Deploy has applied so far (NoRecord
\* when the session has not exactly one Deploy working on package i).
AppliedTo(i) ==
    IF Len(workers) = 1 /\ workers[1].pkg = i /\ workers[1].step /= "totalPackages"
    THEN workers[1].applied ELSE NoRecord

\* The record now shows fewer components (k of n) than the bar, set from the
\* record at an earlier tick, still shows.
Fell(bar, k, n) == k /= NoRecord /\ bar.num * n > k * bar.den

\* Update(msg) reaches a GetDeployedPackage call that panics.
LookupPanics(msg, lk) ==
    \/ msg.t = "package" /\ GetDeployedPackage(rec, msg.a, lk) = DecodePanic
    \/ /\ msg.t = "tick"
       /\ ~(InRange(m.complete, m.pkgIdx) /\ At(m.complete, m.pkgIdx))
       /\ InRange(m.totalComponentsPerPkg, m.pkgIdx)
       /\ At(m.totalComponentsPerPkg, m.pkgIdx) > 0
       /\ InRange(m.pkgNames, m.pkgIdx)
       /\ GetDeployedPackage(rec, At(m.pkgNames, m.pkgIdx), lk) = DecodePanic

HistAfter(msg, r, lk) ==
    [ hist EXCEPT
        !.lookupPanic = @ \/ (r.panic /\ ~r.fatal /\ LookupPanics(msg, lk)),
        !.yKey = @ \/ (msg.t = "key" /\ msg.a \in {"y", "Y"} /\ ~r.fatal),
        !.nKey = @ \/ (msg.t = "key" /\ msg.a \in {"n", "N"} /\ ~r.fatal /\ ~m.confirmed),
        !.userQuit = @ \/ (msg.t = "key" /\ msg.a \in {"ctrl+c", "q"} /\ ~r.fatal),
        !.atQuit = IF msg.t = "key" /\ msg.a \in {"ctrl+c", "q"} /\ @ = <<>> /\ ~m.done
                   THEN <<[ confirmed |-> m.confirmed, pkgIdx |-> m.pkgIdx,
                            pkgNames |-> m.pkgNames, totalPkgs |-> m.totalPkgs,
                            totalComponentsPerPkg |-> m.totalComponentsPerPkg,
                            complete |-> m.complete ]>>
                   ELSE @,
        !.batches = IF r.batch THEN @ + 1 ELSE @,
        !.deployed = IF msg.t = "complete" THEN @ \cup {msg.a} ELSE @,
        !.fatals = IF r.fatal THEN @ + 1 ELSE @,
        !.fatalQuit = @ \/ (r.fatal /\ ~r.panic),
        !.printed = IF msg.t = "other" /\ msg.a \in PkgNames THEN Append(@, msg.a) ELSE @,
        !.firstPct = IF r.pct /= <<>> /\ m.pkgIdx \in PkgIdxs /\ @[m.pkgIdx] = <<>>
                     THEN [@ EXCEPT ![m.pkgIdx] =
                             <<[set |-> r.pct[1], k |-> rec[PkgNameOf[m.pkgIdx + 1]]]>>]
                     ELSE @,
        !.lastPct = IF r.pct /= <<>> /\ m.pkgIdx \in PkgIdxs
                    THEN <<[ set |-> r.pct[1], pkg |-> m.pkgIdx,
                             k |-> rec[PkgNameOf[m.pkgIdx + 1]],
                             fell |-> Fell(At(m.progressBars, m.pkgIdx),
                                           rec[PkgNameOf[m.pkgIdx + 1]],
                                           IF InRange(m.totalComponentsPerPkg, m.pkgIdx)
                                           THEN At(m.totalComponentsPerPkg, m.pkgIdx)
                                           ELSE 0),
                             applied |-> AppliedTo(m.pkgIdx) ]>>
                    ELSE @,
        !.recAtStart = IF msg.t = "package" /\ ~r.fatal
                       THEN [@ EXCEPT ![msg.a] =
                               IF lk = "ok" THEN rec[msg.a] ELSE NoRecord]
                       ELSE @ ]

\* The event loop takes msg from its channel and calls Update(msg).
CallUpdate(msg, procs0, workers0) ==
    \E lk \in (IF msg.t \in {"tick", "package"} THEN Lookups ELSE {"ok"}) :
      LET r == Update(m, resetProgress, msg, FatalPending, rec, lk)
      IN  /\ r.batch => hist.batches < MaxBatches
          /\ m' = r.m
          /\ resetProgress' = r.reset
          /\ procs' = IF r.panic THEN Stopped(procs0)
                       ELSE procs0 (+) SetToBag(r.spawn)
          /\ IF r.fatal
             THEN \E i \in 1..Len(workers0) :
                    /\ workers0[i].pc = "sendFatal"
                    /\ workers' = TakeFatal(workers0, i)
             ELSE workers' = workers0
          /\ prog' = IF r.panic THEN "panicked" ELSE prog
          /\ hist' = HistAfter(msg, r, lk)

Advance(g) ==
    (procs (-) SetToBag({g}))
        (+) (IF Len(g) > 1 THEN SetToBag({Tail(g)}) ELSE EmptyBag)

\* A command goroutine delivers its next message to the event loop.
Deliver ==
    /\ prog = "running"
    /\ \E g \in BagToSet(procs) :
        /\ Head(g).c \in {"tick", "frame", "spin", "op", "println"}
        /\ CallUpdate(IF Head(g).c = "println"
                      THEN [OtherMsg EXCEPT !.a = Head(g).a]
                      ELSE MsgOfTok(Head(g)),
                      Advance(g), workers)
    /\ UNCHANGED <<fvars, cfg, rec, mainPc, keysLeft>>

\* pause() yields a nil message, which the event loop drops.
DeliverNil ==
    /\ prog = "running"
    /\ \E g \in BagToSet(procs) :
        /\ Head(g).c = "pause"
        /\ procs' = Advance(g)
    /\ UNCHANGED <<fvars, cfg, rec, mainPc, prog, m, resetProgress, workers, keysLeft, hist>>

\* tea.Quit reaches the event loop: Program.Run returns (model, nil).
DeliverQuit ==
    /\ prog = "running"
    /\ \E g \in BagToSet(procs) :
        /\ Head(g).c = "quit"
        /\ procs' = Stopped(procs)
    /\ prog' = "quit"
    /\ mainPc' = "deferred"
    /\ UNCHANGED <<fvars, cfg, rec, m, resetProgress, workers, keysLeft, hist>>

\* The user presses a key while the program reads input.
KeyPress ==
    /\ prog = "running"
    /\ keysLeft > 0
    /\ keysLeft' = keysLeft - 1
    /\ \E k \in Keys : CallUpdate(KeyMsg(k), procs, workers)
    /\ UNCHANGED <<fvars, cfg, rec, mainPc>>

\* The goroutine of deployCmd starts: bndlClient.Deploy() is invoked.
StartDeploy ==
    /\ ~Exited
    /\ PendingDeploys > 0
    /\ procs' = procs (-) SetToBag({<<Tok("deploy", "")>>})
    /\ workers' = Append(workers, NewWorker)
    /\ hist' = [hist EXCEPT !.deploys = @ + 1]
    /\ UNCHANGED <<fvars, cfg, rec, mainPc, prog, m, resetProgress, keysLeft>>


\* ----------------------------------------------------- worker's actions
\* Program.Send of the next progress event: handed to Update while the
\* program runs, absorbed once it has quit or was killed.
WorkerSend ==
    /\ ~Exited
    /\ \E i \in 1..Len(workers) :
        /\ workers[i].pc = "run"
        /\ workers[i].step \in SendSteps
        /\ IF prog = "running"
           THEN CallUpdate(EventOf(workers[i]), procs,
                           [workers EXCEPT ![i] = AfterSend(workers[i])])
           ELSE /\ workers' = [workers EXCEPT ![i] = AfterSend(workers[i])]
                /\ hist' = [hist EXCEPT !.deployed =
                              IF workers[i].step = "complete"
                              THEN @ \cup {PkgNameOf[workers[i].pkg + 1]} ELSE @]
                /\ UNCHANGED <<prog, m, resetProgress, procs>>
    /\ UNCHANGED <<fvars, cfg, rec, mainPc, keysLeft>>

\* The deploy of one component of the current package rewrites its record.
WorkerApply ==
    /\ ~Exited
    /\ \E i \in 1..Len(workers) :
        LET w == workers[i] IN
        /\ w.pc = "run"
        /\ w.step = "apply"
        /\ rec' = [rec EXCEPT ![PkgNameOf[w.pkg + 1]] = w.applied + 1]
        /\ workers' = [workers EXCEPT ![i] =
              IF w.applied + 1 >= cfg.comps[w.pkg]
              THEN [w EXCEPT !.applied = @ + 1, !.step = "complete"]
              ELSE [w EXCEPT !.applied = @ + 1]]
    /\ UNCHANGED <<fvars, cfg, mainPc, prog, m, resetProgress, procs, keysLeft, hist>>

\* Re-applying a package deployed before: the deploy operation may restart
\* the package's record with no components before it applies the first one.
WorkerRewrite ==
    /\ ~Exited
    /\ \E i \in 1..Len(workers) :
        LET w == workers[i] IN
        /\ w.pc = "run"
        /\ w.step = "apply"
        /\ w.applied = 0
        /\ rec[PkgNameOf[w.pkg + 1]] > 0
        /\ rec' = [rec EXCEPT ![PkgNameOf[w.pkg + 1]] = 0]
    /\ UNCHANGED <<fvars, cfg, mainPc, prog, m, resetProgress, procs, workers, keysLeft, hist>>

\* Deploy returns an error.
WorkerFail ==
    /\ ~Exited
    /\ \E i \in 1..Len(workers) :
        /\ workers[i].pc = "run"
        /\ workers[i].step /= "end"
        /\ workers' = [workers EXCEPT ![i].pc = "failed"]
    /\ hist' = [hist EXCEPT !.deployErr = TRUE]
    /\ UNCHANGED <<fvars, cfg, rec, mainPc, prog, m, resetProgress, procs, keysLeft>>

\* Deploy returns nil.
WorkerReturn ==
    /\ ~Exited
    /\ \E i \in 1..Len(workers) :
        /\ workers[i].pc = "run"
        /\ workers[i].step = "end"
        /\ workers' = [workers EXCEPT ![i].pc = "returned"]
    /\ UNCHANGED <<fvars, cfg, rec, mainPc, prog, m, resetProgress, procs, keysLeft, hist>>

\* Variant of WorkerClear in which the worker itself ends the session: it
\* sets done before blocking on fatalChan.
WorkerClear_SetsDone ==
    /\ ~Exited
    /\ ~cfg.noTea
    /\ \E i \in 1..Len(workers) :
        /\ workers[i].pc = "failed"
        /\ workers' = [workers EXCEPT ![i].pc = "sendFatal"]
    /\ hist' = [hist EXCEPT !.clearCalls = @ + 1]
    /\ m' = [m EXCEPT !.done = TRUE]
    /\ UNCHANGED <<fvars, cfg, rec, mainPc, prog, resetProgress, procs, keysLeft>>

\* Variant of WorkerClear in which the send on fatalChan comes first and
\* the cleanup is left for after it.
WorkerClear_SendFirst ==
    /\ ~Exited
    /\ ~cfg.noTea
    /\ \E i \in 1..Len(workers) :
        /\ workers[i].pc = "failed"
        /\ workers' = [workers EXCEPT ![i].pc = "sendFatal"]
    /\ UNCHANGED <<fvars, cfg, rec, mainPc, prog, m, resetProgress, procs, keysLeft, hist>>

\* deployCmd after a failed Deploy: ClearPaths, then block on fatalChan.
WorkerClear ==
    /\ ~Exited
    /\ ~cfg.noTea
    /\ \E i \in 1..Len(workers) :
        /\ workers[i].pc = "failed"
        /\ workers' = [workers EXCEPT ![i].pc = "sendFatal"]
    /\ hist' = [hist EXCEPT !.clearCalls = @ + 1]
    /\ UNCHANGED <<fvars, cfg, rec, mainPc, prog, m, resetProgress, procs, keysLeft>>

\* ------------------------------------------------- the deploy command
\* deployWithoutTea: PreDeployValidation
Validate ==
    /\ mainPc = "validate"
    /\ \E ok \in BOOLEAN : mainPc' = IF ok THEN "confirm" ELSE "exit1"
    /\ UNCHANGED <<fvars, cfg, rec, prog, m, resetProgress, procs, workers, keysLeft, hist>>

\* deployWithoutTea: ConfirmBundleDeploy, then an empty killed Program and
\* the synchronous Deploy.
Confirm ==
    /\ mainPc = "confirm"
    /\ \E ok \in BOOLEAN :
        IF ok
        THEN /\ mainPc' = "deploying"
             /\ prog' = "killed"
             /\ workers' = Append(workers, NewWorker)
             /\ hist' = [hist EXCEPT !.deploys = @ + 1]
        ELSE /\ mainPc' = "exit1"
             /\ hist' = [hist EXCEPT !.declined = TRUE]
             /\ UNCHANGED <<prog, workers>>
    /\ UNCHANGED <<fvars, cfg, rec, m, resetProgress, procs, keysLeft>>

\* deployWithoutTea after Deploy failed: ClearPaths, then message.Fatalf,
\* which exits the process without running deferred calls.
NoTeaFatal ==
    /\ mainPc = "deploying"
    /\ workers[1].pc = "failed"
    /\ mainPc' = "exit1"
    /\ hist' = [hist EXCEPT !.clearCalls = @ + 1]
    /\ workers' = <<>>
    /\ UNCHANGED <<fvars, cfg, rec, prog, m, resetProgress, procs, keysLeft>>

\* deployWithoutTea returns after a successful Deploy.
NoTeaReturn ==
    /\ mainPc = "deploying"
    /\ workers[1].pc = "returned"
    /\ mainPc' = "deferred"
    /\ UNCHANGED <<fvars, cfg, rec, prog, m, resetProgress, procs, workers, keysLeft, hist>>

\* Run returns normally: the deferred bndlClient.ClearPaths() runs.
DeferredClearPaths ==
    /\ mainPc = "deferred"
    /\ mainPc' = "exit0"
    /\ hist' = [hist EXCEPT !.clearCalls = @ + 1]
    /\ procs' = EmptyBag
    /\ workers' = <<>>
    /\ UNCHANGED <<fvars, cfg, rec, prog, m, resetProgress, keysLeft>>

\* Program.Run returns an error: message.Fatalf exits the process.
ProgramError ==
    /\ mainPc = "tui"
    /\ prog = "running"
    /\ prog' = "killed"
    /\ mainPc' = "exit1"
    /\ hist' = [hist EXCEPT !.progErr = TRUE]
    /\ procs' = EmptyBag
    /\ workers' = <<>>
    /\ UNCHANGED <<fvars, cfg, rec, m, resetProgress, keysLeft>>

\* Update panicked: the runtime recovers in Program.Run, which returns
\* without an error or with the panic as an error, depending on its version.
PanicReturn ==
    /\ mainPc = "tui"
    /\ prog = "panicked"
    /\ \E asError \in BOOLEAN :
        IF asError
        THEN mainPc' = "exit1" /\ procs' = EmptyBag /\ workers' = <<>>
        ELSE mainPc' = "deferred" /\ UNCHANGED <<procs, workers>>
    /\ UNCHANGED <<fvars, cfg, rec, prog, m, resetProgress, keysLeft, hist>>

Next ==
    \/ Deliver
    \/ DeliverNil
    \/ DeliverQuit
    \/ KeyPress
    \/ StartDeploy
    \/ WorkerSend
    \/ WorkerApply
    \/ WorkerRewrite
    \/ WorkerFail
    \/ WorkerReturn
    \/ WorkerClear
    \/ Validate
    \/ Confirm
    \/ NoTeaFatal
    \/ NoTeaReturn
    \/ DeferredClearPaths
    \/ ProgramError
    \/ PanicReturn

Spec == Init /\ [][Next]_vars


\* ================================================================ the fetch
\* RemoteBundle.LoadPackage and downloadPkgFromRemoteBundle of package
\* sources.  Descriptor 0 is the package manifest (pkgManifestDesc),
\* descriptor i >= 1 the i-th layer of pkgManifest.Layers.

LayerIds == 1..Len(manifest.layers)
SizeOf(d) == IF d = 0 THEN 1 ELSE manifest.layers[d].size

\* strings.Contains(layer.Annotations[AnnotationTitle], config.BlobsDir)
InBlobsDir(d) == d /= 0 /\ manifest.layers[d].blobs

\* cache.Exists(digest): entries persist and are never evicted.
CacheExists(d) == d /= 0 /\ manifest.layers[d].cached

\* Variant of UseCache: the title annotation is not looked at.
UseCache_AnyTitle(d) == CacheExists(d)

\* The condition under which a confirmed layer is taken from the cache.
UseCache(d) == InBlobsDir(d) /\ CacheExists(d)

\* int64(float64(a) / float64(b) * 100); the conversion of +Inf (b = 0) to
\* int64 is left to the platform: the least int64 (amd64) or the greatest
\* (arm64).  Both lie outside 0..100 and are kept here as the extremes of
\* the 32-bit integers the checker computes with.
IntMin == -2147483647
IntMax == 2147483647
Percents(a, b) == IF b = 0 THEN {IntMin, IntMax} ELSE {(a * 100) \div b}

Event(kind, val) == [kind |-> kind, val |-> val, pkg |-> rb.pkg]

\* deploy.Program.Send: handed to the event loop of a running program,
\* absorbed by one that quit or was killed; with no program created
\* deploy.Program is nil and Send dereferences it.
SendReturns == prog /= "none"

\* The goroutine running LoadPackage panicked.
Crashed == [pc |-> "panicked"]

\* The locals of downloadPkgFromRemoteBundle after FetchManifest.
Locals ==
    [ pc |-> IF Len(manifest.layers) = 0 THEN "store" ELSE "exists",
      i |-> 1,
      estimatedBytes |-> 0,
      layersToPull |-> <<0>>,
      layersInBundle |-> <<0>>,
      numLayersVerified |-> 0,
      downloadedBytes |-> 0 ]

\* Variant of ReturnErr: the error is returned together with the layers
\* gathered so far, starting with the manifest descriptor.
ReturnErr_WithLayers(e) ==
    /\ dl' = [pc |-> "failed"]
    /\ fobs' = [fobs EXCEPT !.result = <<[err |-> e, layers |-> <<0>>]>>]

\* downloadPkgFromRemoteBundle returns (nil, err): LoadPackage returns err.
ReturnErr(e) ==
    /\ dl' = [pc |-> "failed"]
    /\ fobs' = [fobs EXCEPT !.result = <<[err |-> e, layers |-> <<>>]>>]

\* Variant of StartLoadPackage: the number of components is announced
\* when the call starts, before the download.
StartLoadPackage_Announce ==
    /\ dl.pc \in {"idle", "returned"}
    /\ fobs.fetches < MaxFetches
    /\ dl' = [pc |-> "root"]
    /\ fobs' = [fobs EXCEPT !.fetches = @ + 1,
                            !.partialAtStart = rb.isPartial,
                            !.sentAtStart = Len(sent),
                            !.exists = <<>>, !.used = <<>>,
                            !.copyRuns = 0, !.copied = {},
                            !.result = <<>>, !.strict = <<>>, !.load = <<>>]
    /\ copies' = <<>>
    /\ sent' = Append(sent, Event("totalComponents", manifest.components))
    /\ UNCHANGED <<tvars, manifest, rb>>

\* Deploy calls LoadPackage on the package's RemoteBundle.
StartLoadPackage ==
    /\ dl.pc \in {"idle", "returned"}
    /\ fobs.fetches < MaxFetches
    /\ dl' = [pc |-> "root"]
    /\ fobs' = [fobs EXCEPT !.fetches = @ + 1,
                            !.partialAtStart = rb.isPartial,
                            !.sentAtStart = Len(sent),
                            !.exists = <<>>, !.used = <<>>,
                            !.copyRuns = 0, !.copied = {},
                            !.result = <<>>, !.strict = <<>>, !.load = <<>>]
    /\ copies' = <<>>
    /\ UNCHANGED <<tvars, manifest, rb, sent>>

\* r.Remote.FetchRoot
FetchRoot ==
    /\ dl.pc = "root"
    /\ \E ok \in BOOLEAN :
        IF ok THEN dl' = [pc |-> "locate"] /\ UNCHANGED fobs
        ELSE ReturnErr("root")
    /\ UNCHANGED <<tvars, manifest, rb, copies, sent>>

\* rootManifest.Locate(r.PkgManifestSHA)
Locate ==
    /\ dl.pc = "locate"
    /\ \E found \in BOOLEAN :
        IF found THEN dl' = [pc |-> "manifest"] /\ UNCHANGED fobs
        ELSE ReturnErr("notInBundle")
    /\ UNCHANGED <<tvars, manifest, rb, copies, sent>>

\* r.Remote.FetchManifest, which yields a manifest or an error
FetchManifest ==
    /\ dl.pc = "manifest"
    /\ \E ok \in BOOLEAN :
        IF ok THEN dl' = Locals /\ UNCHANGED fobs
        ELSE ReturnErr("manifest")
    /\ UNCHANGED <<tvars, manifest, rb, copies, sent>>

\* One iteration of the verification loop over pkgManifest.Layers: the
\* existence check of layer dl.i, its verifying event, and its placement in
\* the cache or in layersToPull.
CheckLayer ==
    /\ dl.pc = "exists"
    /\ LET d == dl.i
           next == IF d = Len(manifest.layers) THEN "store" ELSE "exists"
           checked == [dl EXCEPT !.numLayersVerified = @ + 1, !.i = @ + 1, !.pc = next]
       IN \E out \in {"present", "absent", "err"} :
          \E useOk \in (IF out = "present" /\ UseCache(d) THEN BOOLEAN ELSE {TRUE}) :
            LET seen == [fobs EXCEPT !.exists = Append(@, [layer |-> d, out |-> out]),
                                     !.used = IF out = "present" /\ UseCache(d)
                                              THEN Append(@, d) ELSE @]
                found == [checked EXCEPT !.estimatedBytes = @ + SizeOf(d),
                                         !.layersInBundle = Append(@, d)]
                verifying == Event("verifying",
                                   (checked.numLayersVerified * 100)
                                       \div Len(manifest.layers))
            IN  IF out = "err"
                THEN /\ dl' = [pc |-> "failed"]
                     /\ fobs' = [seen EXCEPT !.result = <<[err |-> "exists", layers |-> <<>>]>>]
                     /\ UNCHANGED sent
                ELSE IF out = "absent"
                THEN dl' = checked /\ fobs' = seen /\ UNCHANGED sent
                ELSE IF ~SendReturns
                THEN /\ dl' = Crashed
                     /\ fobs' = [fobs EXCEPT !.exists = Append(@, [layer |-> d, out |-> out])]
                     /\ UNCHANGED sent
                ELSE /\ sent' = Append(sent, verifying)
                     /\ IF UseCache(d)
                        THEN IF useOk
                             THEN dl' = found /\ fobs' = seen
                             ELSE /\ dl' = [pc |-> "failed"]
                                  /\ fobs' = [seen EXCEPT !.result =
                                                <<[err |-> "use", layers |-> <<>>]>>]
                        ELSE /\ dl' = [found EXCEPT !.layersToPull = Append(@, d)]
                             /\ fobs' = seen
    /\ UNCHANGED <<tvars, manifest, rb, copies>>

\* file.New(r.TmpDir), then oras.Copy starts on layersToPull.
OpenStore ==
    /\ dl.pc = "store"
    /\ \E ok \in BOOLEAN :
        IF ok
        THEN /\ dl' = [dl EXCEPT !.pc = "copy"]
             /\ copies' = [j \in 1..Len(dl.layersToPull) |->
                              [desc |-> dl.layersToPull[j], st |-> "todo", tmp |-> 0]]
             /\ fobs' = [fobs EXCEPT !.copyRuns = @ + 1]
        ELSE ReturnErr("store") /\ UNCHANGED copies
    /\ UNCHANGED <<tvars, manifest, rb, sent>>

InFlight == {j \in 1..Len(copies) : copies[j].st \in {"copying", "read", "written"}}

\* oras.Copy copies a node after its successors: the layers, up to the
\* configured concurrency at a time, and the manifest after them.
CopyNode ==
    /\ dl.pc = "copy"
    /\ Cardinality(InFlight) < manifest.concurrency
    /\ \E j \in 1..Len(copies) :
        /\ copies[j].st = "todo"
        /\ copies[j].desc = 0 =>
              \A k \in 1..Len(copies) : k /= j => copies[k].st = "done"
        /\ copies' = [copies EXCEPT ![j].st = "copying"]
    /\ UNCHANGED <<tvars, manifest, rb, dl, sent, fobs>>

\* PostCopy: downloadedBytes += desc.Size  -- the load of downloadedBytes
PostCopyRead ==
    /\ dl.pc = "copy"
    /\ \E j \in 1..Len(copies) :
        /\ copies[j].st = "copying"
        /\ copies' = [copies EXCEPT ![j].st = "read", ![j].tmp = dl.downloadedBytes]
        /\ fobs' = [fobs EXCEPT !.copied = @ \cup {copies[j].desc}]
    /\ UNCHANGED <<tvars, manifest, rb, dl, sent>>

\* PostCopy: downloadedBytes += desc.Size  -- the store
PostCopyWrite ==
    /\ dl.pc = "copy"
    /\ \E j \in 1..Len(copies) :
        /\ copies[j].st = "read"
        /\ dl' = [dl EXCEPT !.downloadedBytes = copies[j].tmp + SizeOf(copies[j].desc)]
        /\ copies' = [copies EXCEPT ![j].st = "written", ![j].tmp = 0]
    /\ UNCHANGED <<tvars, manifest, rb, sent, fobs>>

\* PostCopy: the downloading event
PostCopySend ==
    /\ dl.pc = "copy"
    /\ \E j \in 1..Len(copies) :
        /\ copies[j].st = "written"
        /\ IF SendReturns
           THEN /\ \E p \in Percents(dl.downloadedBytes, dl.estimatedBytes) :
                      sent' = Append(sent, Event("downloading", p))
                /\ copies' = [copies EXCEPT ![j].st = "done"]
                /\ UNCHANGED dl
           ELSE /\ dl' = Crashed
                /\ copies' = <<>>
                /\ UNCHANGED sent
    /\ UNCHANGED <<tvars, manifest, rb, fobs>>

\* oras.Copy fails on a node and returns the error.
CopyFail ==
    /\ dl.pc = "copy"
    /\ \E j \in 1..Len(copies) : copies[j].st = "copying"
    /\ \A j \in 1..Len(copies) : copies[j].st \notin {"read", "written"}
    /\ ReturnErr("copy")
    /\ copies' = <<>>
    /\ UNCHANGED <<tvars, manifest, rb, sent>>

\* oras.Copy returned nil: the partial test, and the return of layersInBundle.
CopyReturn ==
    /\ dl.pc = "copy"
    /\ \A j \in 1..Len(copies) : copies[j].st = "done"
    /\ rb' = [rb EXCEPT !.isPartial =
                IF Len(manifest.layers) /= Len(dl.layersInBundle) - 1 THEN TRUE ELSE @]
    /\ dl' = [dl EXCEPT !.pc = "loaded"]
    /\ fobs' = [fobs EXCEPT !.result = <<[err |-> "none", layers |-> dl.layersInBundle]>>]
    /\ UNCHANGED <<tvars, manifest, copies, sent>>

\* LoadPackage after the download: read zarf.yaml, filter the components,
\* send totalComponents, validate the package (strict unless r.isPartial),
\* unarchive.
ReadPackage ==
    /\ dl.pc = "loaded"
    /\ \E yamlOk, filterOk, valid, unarchived \in BOOLEAN :
        LET err == IF ~yamlOk THEN "yaml"
                   ELSE IF ~filterOk THEN "filter"
                   ELSE IF ~valid THEN "invalid"
                   ELSE IF ~unarchived THEN "unarchive"
                   ELSE "none"
            ret == <<[err |-> err, filterOk |-> yamlOk => filterOk,
                      valid |-> yamlOk => valid]>>
        IN  IF err \in {"yaml", "filter"}
            THEN /\ dl' = [pc |-> "failed"]
                 /\ fobs' = [fobs EXCEPT !.load = ret]
                 /\ UNCHANGED sent
            ELSE IF ~SendReturns
            THEN dl' = Crashed /\ UNCHANGED <<sent, fobs>>
            ELSE /\ dl' = [pc |-> IF err = "none" THEN "returned" ELSE "failed"]
                 /\ sent' = Append(sent, Event("totalComponents", manifest.components))
                 /\ fobs' = [fobs EXCEPT !.strict = <<~rb.isPartial>>, !.load = ret]
    /\ UNCHANGED <<tvars, manifest, rb, copies>>

\* Deploy finishes the package: it sends complete, and takes a new
\* RemoteBundle for the next package.
PackageDone ==
    /\ dl.pc = "returned"
    /\ rb.pkg + 1 < MaxFetches
    /\ sent' = Append(sent, Event("complete", 0))
    /\ rb' = NewRemoteBundle(rb.pkg + 1)
    /\ dl' = Idle
    /\ copies' = <<>>
    /\ UNCHANGED <<tvars, manifest, fobs>>

Layers ==
    UNION {[1..n -> [size : 1..MaxSize, blobs : BOOLEAN, cached : BOOLEAN]] :
              n \in 0..MaxLayers}

\* What deploy.Program is when LoadPackage runs: the program of a TUI deploy
\* ("running", or "quit" once Run returned), the killed program of a no-TUI
\* deploy, or nil ("none") in a command that created no program.
Reporters == {"running", "quit", "killed", "none"}

\* bndlClient.Deploy about to load its first package.
FetchInit ==
    /\ cfg = [noTea |-> TRUE, confirm |-> TRUE, npkgs |-> MaxFetches,
              comps |-> [i \in PkgIdxs |-> 0]]
    /\ rec = [n \in PkgNames |-> NoRecord]
    /\ mainPc = "deploying"
    /\ prog \in Reporters
    /\ m = InitModel(TRUE)
    /\ resetProgress = FALSE
    /\ procs = EmptyBag
    /\ workers = <<>>
    /\ keysLeft = 0
    /\ hist = InitHist
    /\ manifest \in [layers : Layers, concurrency : 1..MaxLayers, components : {MaxComp}]
    /\ rb = NewRemoteBundle(0)
    /\ dl = Idle
    /\ copies = <<>>
    /\ sent = <<>>
    /\ fobs = InitFobs

FetchNext ==
    \/ StartLoadPackage
    \/ FetchRoot
    \/ Locate
    \/ FetchManifest
    \/ CheckLayer
    \/ OpenStore
    \/ CopyNode
    \/ PostCopyRead
    \/ PostCopyWrite
    \/ PostCopySend
    \/ CopyFail
    \/ CopyReturn
    \/ ReadPackage
    \/ PackageDone

FetchSpec == FetchInit /\ [][FetchNext]_vars

\* ------------------------------------------------------------ properties
TuiRun == ~cfg.noTea

\* The fields of the Model that describe the deploy session (the spinners
\* and bars are presentation).
Session(mm) ==
    <<mm.confirmed, mm.done, mm.pkgIdx, mm.pkgNames, mm.totalComponentsPerPkg,
      mm.totalPkgs, mm.complete, mm.progressBars>>

\* Nothing but the user can make the run-loop call Update again.
Quiescent ==
    /\ procs = EmptyBag
    /\ \A i \in 1..Len(workers) : workers[i].pc \in {"sendFatal", "returned"}

\* tea.Quit has been issued and not yet handled.
QuitPending == \E g \in BagToSet(procs) : \E j \in 1..Len(g) : g[j].c = "quit"

\* C1: in a TUI run Deploy is started only while confirmed is true, and
\* confirmed is true only if the confirm option was set at construction or a
\* 'y'/'Y' key event was handled.
C1_DeployOnlyConfirmed ==
    TuiRun =>
        /\ (hist.deploys + PendingDeploys > 0 => m.confirmed)
        /\ (m.confirmed => cfg.confirm \/ hist.yKey)

C1_Witness == TuiRun /\ ~cfg.confirm /\ hist.yKey /\ hist.deploys > 0

\* C2: once the user has declined (an 'n'/'N' key event before confirmation,
\* or a negative answer to the no-TUI prompt) the session is over or Quit is
\* on its way, and no Deploy was or will be started.
C2_DeclineEndsSession ==
    (hist.nKey \/ hist.declined) =>
        /\ (prog /= "running" \/ QuitPending)
        /\ hist.deploys + PendingDeploys = 0

\* C3: Deploy is started at most once per session.
C3_DeployAtMostOnce == hist.deploys + PendingDeploys <= 1

\* C4: ClearPaths is never called twice, and has been called exactly once
\* when the deploy command has exited.
C4_ClearPathsOnce ==
    /\ hist.clearCalls <= 1
    /\ (Exited => hist.clearCalls = 1)

\* C5: in a TUI run a worker blocked sending Deploy's error on fatalChan is
\* never left with a run-loop that will not call Update again.
C5_FatalReceived ==
    (TuiRun /\ prog = "running" /\ FatalPending /\ keysLeft = 0) => ~Quiescent

\* C6: while a worker is blocked sending on fatalChan, every message the
\* run-loop handles is consumed by the fatal branch: the receive happens, and
\* the message changes neither the session fields nor resetProgress.
C6_FatalPreempts ==
    [][ (prog = "running" /\ FatalPending /\ (Deliver \/ KeyPress \/ WorkerSend))
          => /\ hist'.fatals = hist.fatals + 1
             /\ Session(m') = Session(m)
             /\ resetProgress' = resetProgress
             /\ hist'.deploys + CopiesIn(<<Tok("deploy", "")>>, procs')
                  = hist.deploys + PendingDeploys ]_vars

C6_Witness == hist.fatals > 0 /\ hist.fatalQuit /\ prog = "running"

\* C7: a TUI run whose run-loop received Deploy's error and issued Quit for
\* it exits with a failure.
C7_ErrorSurfaced ==
    (TuiRun /\ hist.fatalQuit /\ Exited) => mainPc = "exit1"

\* C8: in a run with a single polling tick chain (no 'y' key event) the
\* success batch is issued at most once, only with done set, and prints the
\* packages' notifications in package order.
C8_SingleBatch ==
    ~hist.yKey =>
    /\ hist.batches <= 1
    /\ (hist.batches > 0 => m.done)
    /\ \A j \in 1..Len(hist.printed) : hist.printed[j] = PkgNameOf[j]

\* C9: a TUI run whose single Deploy returned without error, and that the
\* user left alone, is never left with nothing to do before done is set.
C9_ReachesSucceeded ==
    ( /\ TuiRun /\ prog = "running"
      /\ ~hist.yKey /\ ~hist.nKey /\ ~hist.userQuit
      /\ hist.deploys = 1 /\ Len(workers) = 1 /\ workers[1].pc = "returned"
      /\ Quiescent )
    => m.done

\* C10: for a package found with k of its n components deployed, the first
\* percentage the run-loop sets from a successful lookup, before any
\* component is re-applied, is k/n.
C10_ResumeFirstPct ==
    \A i \in PkgIdxs :
        LET f == hist.firstPct[i]
            k == hist.recAtStart[PkgNameOf[i + 1]]
            n == cfg.comps[i]
        IN  ( /\ TuiRun /\ hist.deploys = 1
              /\ f /= <<>> /\ k > 0 /\ n > 0 /\ k <= n
              /\ f[1].set.how \in {"record", "reset"}
              /\ f[1].k = k )
            => f[1].set.num * n = k * f[1].set.den

C12_HeldUntilReapplied ==
    hist.lastPct /= <<>> =>
        LET l == hist.lastPct[1]
            k == hist.recAtStart[PkgNameOf[l.pkg + 1]]
            n == cfg.comps[l.pkg]
        IN  ( /\ TuiRun /\ hist.deploys = 1
              /\ 0 < k /\ k < n
              /\ l.applied = 0
              /\ l.set.how \in {"record", "reset"} )
            => l.set.num = 0

\* C13: no lookup of a deployed package aborts the run: GetDeployedPackage
\* never panics inside Update.
C13_LookupNeverAborts == ~hist.lookupPanic

\* ------------------------------------------------------ the package fetch

FetchFailed == fobs.result /= <<>> /\ fobs.result[1].err /= "none"
FetchSucceeded ==
    dl.pc /= "idle" /\ fobs.result /= <<>> /\ fobs.result[1].err = "none"

Range(q) == {q[i] : i \in 1..Len(q)}
Confirmed == {e.layer : e \in {x \in Range(fobs.exists) : x.out = "present"}}
Absent == {e.layer : e \in {x \in Range(fobs.exists) : x.out = "absent"}}

Distinct(q) == \A i, j \in 1..Len(q) : q[i] = q[j] => i = j

\* C14: a fetch failure is fatal to the fetch and is not retried: when the
\* manifest is not in the root index, or an existence check, a Cache.Use or
\* the remote copy fails, downloadPkgFromRemoteBundle returns the error with
\* no layer list, has made the failed step once, and has left r.isPartial
\* as it was; when the manifest is absent no existence check was made and
\* no progress event was sent.
C14_FailureIsFatal ==
    FetchFailed =>
        LET e == fobs.result[1].err
        IN  /\ dl.pc = "failed"
            /\ fobs.result[1].layers = <<>>
            /\ rb.isPartial = fobs.partialAtStart
            /\ Distinct(fobs.exists)
            /\ Distinct(fobs.used)
            /\ fobs.copyRuns <= 1
            /\ e = "exists" => fobs.exists[Len(fobs.exists)].out = "err"
            /\ e = "use" => fobs.used /= <<>> /\ fobs.copyRuns = 0
            /\ e = "copy" => fobs.copyRuns = 1
            /\ e = "notInBundle" => fobs.exists = <<>> /\ Len(sent) = fobs.sentAtStart

\* An existence check fails after an earlier layer was found absent.
C14_Witness ==
    /\ FetchFailed
    /\ fobs.result[1].err = "exists"
    /\ Len(fobs.exists) = MaxLayers
    /\ fobs.exists[1].out = "absent"

\* C15: after a successful fetch the package is marked partial if and only
\* if a layer declared in the manifest was absent from the remote; an
\* absent layer is no error and is left out of the returned layers, which are
\* exactly the manifest descriptor and every declared layer found present.
C15_PartialIffAbsent ==
    FetchSucceeded =>
        /\ rb.isPartial <=> Absent /= {}
        /\ Confirmed \cup Absent = LayerIds
        /\ Range(fobs.result[1].layers) = {0} \cup Confirmed
        /\ Distinct(fobs.result[1].layers)

\* The verification loop has run or is running: the to-pull list exists.
Partitioned == dl.pc \in {"exists", "store", "copy", "loaded"}

\* C16: every confirmed layer is handled exactly one way: Cache.Use supplies
\* it, and it is not in the to-pull list, if and only if it is annotated as
\* blob-storage content and its digest is in the cache; otherwise it is in
\* the to-pull list.  So in every fetch, a repeated one with a warm cache
\* included, no such cached layer is pulled or copied and Cache.Use is
\* called for each of them.
C16_CachePartition ==
    Partitioned =>
        /\ \A d \in Confirmed :
              /\ d \in Range(fobs.used) <=> (InBlobsDir(d) /\ CacheExists(d))
              /\ d \in Range(dl.layersToPull) <=> ~(InBlobsDir(d) /\ CacheExists(d))
        /\ Range(fobs.used) \subseteq Confirmed
        /\ Range(dl.layersToPull) \subseteq {0} \cup Confirmed
        /\ fobs.copied \subseteq Range(dl.layersToPull)
        /\ Distinct(fobs.used)
        /\ Distinct(dl.layersToPull)

\* A second fetch of the same package: one layer came from the cache, as in
\* the first fetch, and another was pulled.
C16_Witness ==
    /\ fobs.fetches = 2
    /\ fobs.partialAtStart = FALSE
    /\ rb.pkg = 0
    /\ dl.pc = "loaded"
    /\ fobs.used /= <<>>
    /\ Len(dl.layersToPull) = 2
    /\ fobs.copied = Range(dl.layersToPull)

\* Positions in the event log of the events of the current fetch.
EventsOfFetch(kind) ==
    {i \in (fobs.sentAtStart + 1)..Len(sent) : sent[i].kind = kind}

Last(S) == CHOOSE i \in S : \A j \in S : j <= i

\* C17: a verifying event follows each existence check of a declared
\* layer, found present or absent: a fetch has sent as many verifying events
\* as it made existence checks, and once all layers are checked the last
\* verifying event carries 100.
C17_VerifyingPerCheck ==
    Partitioned =>
        /\ Cardinality(EventsOfFetch("verifying")) = Len(fobs.exists)
        /\ (dl.pc /= "exists" /\ fobs.exists /= <<>>) =>
              /\ EventsOfFetch("verifying") /= {}
              /\ sent[Last(EventsOfFetch("verifying"))].val = 100

\* C18: in every call of LoadPackage, a repeated call on the same
\* RemoteBundle after a partial fetch included, the aggregate checksum is
\* validated in strict mode if and only if every layer declared in the
\* manifest was present in the remote in this fetch.
C18_StrictIffComplete ==
    fobs.strict /= <<>> => (fobs.strict[1] <=> Absent = {})

RECURSIVE SumSizes(_)
SumSizes(S) ==
    IF S = {} THEN 0
    ELSE LET d == CHOOSE x \in S : TRUE IN SizeOf(d) + SumSizes(S \ {d})

\* Descriptors whose PostCopy has added its size to the counter.
Counted == {copies[j].desc : j \in {k \in 1..Len(copies) : copies[k].st \in {"written", "done"}}}

\* C19: with PostCopy callbacks running in parallel, the cumulative byte
\* counter always equals the sum of the sizes of the layers whose copy has
\* completed (no update is lost), and a downloading event carries the
\* counter as a percentage of the sum of the sizes of all confirmed layers.
C19_NoLostUpdate ==
    dl.pc = "copy" =>
        /\ dl.downloadedBytes = SumSizes(Counted)
        /\ \A i \in EventsOfFetch("downloading") :
              SumSizes(Confirmed) > 0 =>
                 \E c \in 0..SumSizes(Range(dl.layersToPull)) :
                    sent[i].val = (c * 100) \div SumSizes(Confirmed)

\* C20: the progress events are sent in causal order: within a fetch every
\* verifying event precedes every downloading event and every downloading
\* event precedes the totalComponents event; the complete event of a package
\* follows all its other events; and the events of package i all precede
\* the events of package i+1.
C20_CausalOrder ==
    /\ \A i \in EventsOfFetch("verifying") :
          \A j \in EventsOfFetch("downloading") \cup EventsOfFetch("totalComponents") : i < j
    /\ \A i \in EventsOfFetch("downloading") :
          \A j \in EventsOfFetch("totalComponents") : i < j
    /\ \A i, j \in 1..Len(sent) :
          /\ (sent[j].kind = "complete" /\ sent[i].pkg = sent[j].pkg) => i <= j
          /\ i < j => sent[i].pkg <= sent[j].pkg

\* The second package has sent its verifying, downloading and
\* totalComponents events, after the complete event of the first.
C20_Witness ==
    /\ rb.pkg = 1
    /\ fobs.fetches = 2
    /\ dl.pc = "returned"
    /\ EventsOfFetch("verifying") /= {}
    /\ EventsOfFetch("downloading") /= {}
    /\ EventsOfFetch("totalComponents") /= {}
    /\ \E i \in 1..Len(sent) : sent[i].kind = "complete" /\ sent[i].pkg = 0
    /\ \E i \in 1..Len(sent) : sent[i].kind = "downloading" /\ sent[i].pkg = 0

\* C21: with no frontend consuming events (the killed program of a no-TUI
\* deploy, a program that quit, or no program created) every Program.Send of
\* the fetch returns: the fetch never crashes in a Send.
C21_SendNeverCrashes ==
    prog /= "running" => dl.pc /= "panicked"

\* C22: a ctrl+c or q key event before the run has succeeded or failed makes
\* the run-loop issue Quit at once, changes no session field and starts no
\* cleanup of deployed packages; from then on the session takes up no further
\* package: its fields stay as they were at the key event.
C22_CancelStops ==
    (hist.atQuit /= <<>> /\ hist.fatals = 0) =>
        LET q == hist.atQuit[1]
        IN  /\ prog = "running" => QuitPending
            /\ hist.clearCalls > 0 => Exited
            /\ ~m.done
            /\ m.confirmed = q.confirmed
            /\ m.pkgIdx = q.pkgIdx
            /\ m.pkgNames = q.pkgNames
            /\ m.totalPkgs = q.totalPkgs
            /\ m.totalComponentsPerPkg = q.totalComponentsPerPkg
            /\ m.complete = q.complete

\* The deploy operation of package i (counted from 0) has returned success.
Deployed(i) == PkgNameOf[i + 1] \in hist.deployed

\* C23: packages are processed one at a time in bundle order: no Deploy is
\* at a step of package i+1, and the session's current index is not i+1,
\* before the deploy operation of package i has returned success.
C23_StrictOrder ==
    /\ \A j \in 1..Len(workers) :
          (workers[j].step /= "totalPackages" /\ workers[j].pkg > 0)
              => Deployed(workers[j].pkg - 1)
    /\ m.pkgIdx > 0 => Deployed(m.pkgIdx - 1)

\* The session is at the second package, whose Deploy steps have begun.
C23_Witness ==
    /\ TuiRun
    /\ m.pkgIdx = 1
    /\ Len(workers) = 1
    /\ workers[1].pkg = 1
    /\ workers[1].step = "complete"
    /\ Deployed(0)

\* The session fields a deploy worker must leave alone.
SessionFields(mm) ==
    <<mm.pkgIdx, mm.complete, mm.totalComponentsPerPkg, mm.totalPkgs,
      mm.pkgNames, mm.confirmed, mm.done>>

\* The messages the event loop can hand to Update.
Msgs ==
    {TickMsg, FrameMsg, SpinMsg, OpMsg, OtherMsg}
    \cup {KeyMsg(k) : k \in Keys}
    \cup {StrInt(kind, n) : kind \in StringKinds \ {"package"}, n \in 0..(MaxPkgs + MaxComp)}
    \cup {StrName(kind, a) : kind \in {"package", "complete"}, a \in PkgNames}
    \cup {[OtherMsg EXCEPT !.a = a] : a \in PkgNames \cup {"prompt", "line"}}

\* The step is one call of Update on the model.
ByUpdate ==
    \E msg \in Msgs : \E lk \in Lookups :
        m' = Update(m, resetProgress, msg, FatalPending, rec, lk).m

\* C24: the session fields pkgIdx, complete, totalComponentsPerPkg,
\* totalPkgs, pkgNames, confirmed and done change only in a call of Update by
\* the run-loop; the steps of the deploy worker (starting Deploy, Deploy
\* working and returning, ClearPaths and the send on the fatal channel)
\* change none of them.
C24_OnlyUpdateWrites ==
    [][ /\ SessionFields(m') /= SessionFields(m)
            => (ByUpdate /\ (Deliver \/ KeyPress \/ WorkerSend))
        /\ (StartDeploy \/ WorkerApply \/ WorkerRewrite \/ WorkerFail
              \/ WorkerReturn \/ WorkerClear) => m' = m ]_vars

\* A worker has called Deploy and ClearPaths and its send on the fatal
\* channel was received, in a session whose fields Update had filled.
C24_Witness ==
    /\ TuiRun
    /\ hist.deploys = 1 /\ hist.clearCalls = 1 /\ hist.fatals = 1
    /\ m.pkgNames /= <<>>
    /\ m.totalPkgs > 0

\* Workers blocked in the send on fatalChan.
Senders == {i \in 1..Len(workers) : workers[i].pc = "sendFatal"}

\* C25: a worker whose Deploy failed has completed ClearPaths before it
\* sends on the fatal channel: every fatal send, pending or received, was
\* preceded by a ClearPaths call, so the run-loop observes a failure only
\* after the cleanup.
C25_ClearBeforeFatal ==
    TuiRun => hist.fatals + Cardinality(Senders) <= hist.clearCalls

\* The run-loop has received the failure and issued Quit, after one cleanup.
C25_Witness ==
    /\ TuiRun
    /\ prog = "running"
    /\ hist.fatalQuit /\ QuitPending
    /\ hist.clearCalls = 1
    /\ hist.deployErr

\* C26: LoadPackage validates the aggregate checksum before it applies the
\* component filter and before it sends totalComponents: a package that
\* fails validation has no totalComponents event, and its validation error
\* is the one returned even when the filter would fail too.
C26_ValidateFirst ==
    (fobs.load /= <<>> /\ ~fobs.load[1].valid) =>
        /\ EventsOfFetch("totalComponents") = {}
        /\ fobs.load[1].err = "invalid"

\* A TUI run whose progress events come from one Deploy: idx:0, idx:1, ...
\* in order, each after its package event.
OrderedEvents == TuiRun /\ hist.deploys <= 1

\* The run-loop panicked on an index out of range in the tick or frame
\* handler (not in a lookup, and not in the fatal branch).
IndexPanic == prog = "panicked" /\ ~hist.lookupPanic /\ hist.fatals = 0

C28_FatalBranchSafe ==
    hist.fatals > 0 => (hist.fatalQuit /\ (prog = "panicked" => hist.lookupPanic))

\* C29: Succeeded and Failed are mutually exclusive in one session: after a
\* receive from the fatal channel no tick sets done (and so none prints the
\* "Package deployed" lines), and once done is set no fatal signal is
\* handled; a session never has both done and a handled fatal signal.
C29_SucceededXorFailed ==
    TuiRun => ~(m.done /\ hist.fatals > 0)

\* The progress events that carry no session data: verifying and downloading
\* events, strings of an unknown kind, and count events whose value does not
\* parse as an integer.
NoDataMsgs ==
    {StrInt(kind, n) : kind \in {"verifying", "downloading"}, n \in {0, 100}}
    \cup {StrName(kind, "x") : kind \in {"verifying", "downloading", "unknown",
                                          "totalComponents", "totalPackages", "idx"}}
    \cup {StrInt("unknown", 1)}

\* C30: a progress event that carries no session data leaves the session
\* unchanged: handling it changes none of pkgIdx, pkgNames,
\* totalComponentsPerPkg, totalPkgs, complete, confirmed, done or the reset
\* flag, and when the event is processed (no fatal signal takes the place of
\* the message) the model is left as it was and no command is scheduled.
C30_NoDataNoEffect ==
    TuiRun =>
        \A msg \in NoDataMsgs : \A lk \in Lookups :
            LET r == Update(m, resetProgress, msg, FatalPending, rec, lk)
            IN  /\ SessionFields(r.m) = SessionFields(m)
                /\ r.reset = resetProgress
                /\ ~FatalPending => (r.m = m /\ r.spawn = {} /\ ~r.panic)

\* The verifying event of the second package has been handled by Update in
\* a session that holds data.
C30_Witness ==
    /\ TuiRun /\ prog = "running" /\ ~FatalPending
    /\ Len(workers) = 1
    /\ workers[1].pc = "run" /\ workers[1].pkg = 1
    /\ workers[1].step = "totalComponents"
    /\ m.pkgIdx = 1 /\ m.totalPkgs = 2 /\ Len(m.pkgNames) = 2

\* C31: every percentage the fetcher sends is an integer in 0..100: the
\* verifying values of a fetch never decrease, and no downloading value
\* exceeds 100, whether or not the manifest descriptor is among the copied
\* descriptors, some confirmed layers came from the cache, or the sizes of
\* the confirmed layers add up to 0.
C31_PercentInRange ==
    /\ \A i \in 1..Len(sent) :
          sent[i].kind \in {"verifying", "downloading"} => sent[i].val \in 0..100
    /\ \A i, j \in EventsOfFetch("verifying") :
          i <= j => sent[i].val <= sent[j].val

============================================================================
